---------------------------- MODULE Spec2Model ----------------------------
(***************************************************************************)
(* A model of the DNS message codec of dns-server-rust:                    *)
(*   src/src/types.rs   Header, OpCode, RCode, RecordType, Label,          *)
(*                      Question, Answer, Message and their wire encoders  *)
(*   src/src/parser.rs  DnsParser: the wire decoder, with name             *)
(*                      decompression                                      *)
(*   src/src/main.rs    the first revision of the UDP responder loop       *)
(*                                                                         *)
(* Bytes are the integers 0..255, u16 values the integers 0..65535.  A     *)
(* packet is a sequence of bytes; the code's 0-based index i is element    *)
(* i + 1 of the sequence.  A Rust String is held as its UTF-8 bytes, which *)
(* is what String::from_utf8 and String::as_bytes make of it.              *)
(***************************************************************************)
EXTENDS Integers, Sequences, FiniteSets, TLC

VARIABLES
    packet,     \* DnsParser.packet
    pos,        \* DnsParser.pos
    pc,         \* the step of DnsParser::parse that completed last
    header,     \* parse's local `header`
    questions,  \* the questions collected so far
    answers,    \* the answers collected so far
    labels,     \* parse_question's / parse_answer's local `labels`
    starts,     \* <<kind, pos>> at the entry of every record decode, in call order
    result,     \* what parse returned (or how it ended)
    msg,        \* the Message handed to the encoder, NoMessage if none
    hdr,        \* a types.rs Header object the setters act on
    op,         \* the header operation that ran last, with its argument
    response    \* the datagram the main loop sent last

vars == <<packet, pos, pc, header, questions, answers, labels, starts, result,
          msg, hdr, op, response>>

parserVars == <<packet, pos, pc, header, questions, answers, labels, starts, result>>

headerVars == <<hdr, op, response>>

-----------------------------------------------------------------------------
(* Integer and bit helpers: u8 / u16 / u32 arithmetic of the Rust code.     *)

Byte == 0 .. 255

RECURSIVE BitAnd(_, _)
\* a & b on non-negative integers
BitAnd(a, b) ==
    IF a = 0 \/ b = 0 THEN 0
    ELSE (IF a % 2 = 1 /\ b % 2 = 1 THEN 1 ELSE 0) + 2 * BitAnd(a \div 2, b \div 2)

RECURSIVE BitOr(_, _)
\* a | b on non-negative integers
BitOr(a, b) ==
    IF a = 0 THEN b
    ELSE IF b = 0 THEN a
    ELSE (IF a % 2 = 1 \/ b % 2 = 1 THEN 1 ELSE 0) + 2 * BitOr(a \div 2, b \div 2)

\* u16::from_be_bytes([hi, lo])
U16FromBe(hi, lo) == hi * 256 + lo

\* BufMut::put_u16: the two big-endian bytes of a u16
U16ToBe(v) == << (v \div 256) % 256, v % 256 >>

\* A u32 is held as <<high 16 bits, low 16 bits>>: TLC's integers stop at
\* 2^31 - 1, below the largest TTL.
\* u32::from_be_bytes on a 4-byte slice
U32FromBe(b) == << U16FromBe(b[1], b[2]), U16FromBe(b[3], b[4]) >>

\* BufMut::put_u32: the four big-endian bytes of a u32
U32ToBe(v) == U16ToBe(v[1]) \o U16ToBe(v[2])

RECURSIVE Flatten(_)
\* the concatenation of a sequence of byte sequences (extend_from_slice in a loop)
Flatten(ss) == IF ss = << >> THEN << >> ELSE Head(ss) \o Flatten(Tail(ss))

\* the 0-based slice packet[from .. to) of the Rust code
Slice(p, from, to) == SubSeq(p, from + 1, to)

-----------------------------------------------------------------------------
(* types.rs: OpCode, RCode                                                  *)

\* impl From<OpCode> for u8; an OpCode is <<"Query">>, <<"IQuery">>, <<"Status">>
\* or <<"Reserved", n>>
OpCodeToU8(opcode) ==
    CASE opcode[1] = "Query" -> 0
      [] opcode[1] = "IQuery" -> 1
      [] opcode[1] = "Status" -> 2
      [] opcode[1] = "Reserved" -> opcode[2]

\* impl TryFrom<u8> for OpCode
OpCodeFromU8(value) ==
    CASE value = 0 -> <<"Query">>
      [] value = 1 -> <<"IQuery">>
      [] value = 2 -> <<"Status">>
      [] value \in 3 .. 15 -> <<"Reserved", value>>
      [] OTHER -> <<"Err", "unknown opcode">>

\* impl From<RCode> for u8
RCodeToU8(rcode) ==
    CASE rcode = "NoError" -> 0
      [] rcode = "FormatError" -> 1
      [] rcode = "ServerFailure" -> 2
      [] rcode = "NameError" -> 3
      [] rcode = "NotImplemented" -> 4
      [] rcode = "Refused" -> 5

RCodes == {"NoError", "FormatError", "ServerFailure", "NameError", "NotImplemented", "Refused"}

-----------------------------------------------------------------------------
(* types.rs: Header                                                         *)

\* Header::default()
DefaultHeader ==
    [id |-> 0, flags |-> <<0, 0>>, qdcount |-> 0, ancount |-> 0, nscount |-> 0, arcount |-> 0]

\* new_reply that leaves the id at its default, as main.rs's new_reply does
new_reply_ignores_id(id) ==
    LET h == DefaultHeader
    IN  [h EXCEPT !.flags[1] = BitOr(h.flags[1], 128)]

\* Header::new_reply
new_reply(id) ==
    LET h == [DefaultHeader EXCEPT !.id = id]
    IN  [h EXCEPT !.flags[1] = BitOr(h.flags[1], 128)]

\* Header::get_opcode
get_opcode(h) == OpCodeFromU8(BitAnd(h.flags[1], 120) \div 8)

\* set_opcode without its & 0b0111_1000
set_opcode_unmasked(h, opcode) ==
    LET value == OpCodeToU8(opcode)
        mask  == (value * 8) % 256
    IN  [h EXCEPT !.flags[1] = BitOr(h.flags[1], mask)]

\* Header::set_opcode
set_opcode(h, opcode) ==
    LET value == OpCodeToU8(opcode)
        mask  == BitAnd((value * 8) % 256, 120)
    IN  [h EXCEPT !.flags[1] = BitOr(h.flags[1], mask)]

\* Header::get_rd
get_rd(h) == BitAnd(h.flags[1], 1) > 0

\* Header::set_rd
set_rd(h, rd) ==
    IF rd THEN [h EXCEPT !.flags[1] = BitOr(h.flags[1], 1)]
          ELSE [h EXCEPT !.flags[1] = BitOr(h.flags[1], 0)]

\* Header::set_rcode
set_rcode(h, rcode) ==
    LET mask == RCodeToU8(rcode)
    IN  [h EXCEPT !.flags[2] = BitOr(h.flags[2], mask)]

\* impl TryFrom<[u8; 12]> for Header
HeaderFromBytes(bytes) ==
    [id      |-> U16FromBe(bytes[1], bytes[2]),
     flags   |-> <<bytes[3], bytes[4]>>,
     qdcount |-> U16FromBe(bytes[5], bytes[6]),
     ancount |-> U16FromBe(bytes[7], bytes[8]),
     nscount |-> U16FromBe(bytes[9], bytes[10]),
     arcount |-> U16FromBe(bytes[11], bytes[12])]

\* impl TryInto<[u8; 12]> for Header
HeaderToBytes(h) ==
    U16ToBe(h.id) \o h.flags \o U16ToBe(h.qdcount) \o U16ToBe(h.ancount)
        \o U16ToBe(h.nscount) \o U16ToBe(h.arcount)

-----------------------------------------------------------------------------
(* types.rs: RecordType, RecordClass, Label, Question, Answer, Message     *)

\* impl TryFrom<u16> for RecordType
RecordTypeFromU16(value) ==
    CASE value = 1 -> "A"
      [] value = 2 -> "NS"
      [] value = 5 -> "Cname"
      [] value = 15 -> "MX"
      [] OTHER -> "Err"

\* impl From<RecordType> for u16
RecordTypeToU16(val) ==
    CASE val = "A" -> 1
      [] val = "NS" -> 2
      [] val = "Cname" -> 5
      [] val = "MX" -> 15

\* impl From<RecordClass> for u16
RecordClassToU16(val) == CASE val = "IN" -> 1

\* LabelToBytes without the length byte
LabelToBytesNoLength(l) == l

\* impl From<Label> for Vec<u8>: the length as one byte, then the bytes
LabelToBytes(l) == << Len(l) % 256 >> \o l

\* the name part of a Question or an Answer: every label, then a zero byte
NameToBytes(name) == Flatten([i \in 1 .. Len(name) |-> LabelToBytes(name[i])]) \o <<0>>

\* impl From<Question> for Vec<u8>
QuestionToBytes(q) ==
    NameToBytes(q.name) \o U16ToBe(RecordTypeToU16(q.record_type))
        \o U16ToBe(RecordClassToU16(q.record_class))

\* impl From<Answer> for Vec<u8>
AnswerToBytes(a) ==
    NameToBytes(a.name) \o U16ToBe(RecordTypeToU16(a.record_type))
        \o U16ToBe(RecordClassToU16(a.record_class))
        \o U32ToBe(a.ttl)
        \o U16ToBe(Len(a.rdata) % 65536)
        \o a.rdata

\* impl TryInto<Vec<u8>> for Message
MessageToBytes(m) ==
    HeaderToBytes(m.header)
        \o Flatten([i \in 1 .. Len(m.questions) |-> QuestionToBytes(m.questions[i])])
        \o Flatten([i \in 1 .. Len(m.answers) |-> AnswerToBytes(m.answers[i])])

-----------------------------------------------------------------------------
(* parser.rs: DnsParser                                                     *)

NoMessage == [none |-> TRUE]

NoHeader == [none |-> TRUE]

\* a continuation byte of a UTF-8 sequence
IsCont(b) == b \in 128 .. 191

RECURSIVE ValidUtf8(_)
\* String::from_utf8 succeeds: the bytes are well-formed UTF-8
ValidUtf8(s) ==
    IF s = << >> THEN TRUE
    ELSE LET b == s[1]
             n == Len(s)
         IN  CASE b < 128 -> ValidUtf8(Tail(s))
               [] b \in 194 .. 223 ->
                    n >= 2 /\ IsCont(s[2]) /\ ValidUtf8(SubSeq(s, 3, n))
               [] b = 224 ->
                    n >= 3 /\ s[2] \in 160 .. 191 /\ IsCont(s[3]) /\ ValidUtf8(SubSeq(s, 4, n))
               [] b \in (225 .. 236) \cup (238 .. 239) ->
                    n >= 3 /\ IsCont(s[2]) /\ IsCont(s[3]) /\ ValidUtf8(SubSeq(s, 4, n))
               [] b = 237 ->
                    n >= 3 /\ s[2] \in 128 .. 159 /\ IsCont(s[3]) /\ ValidUtf8(SubSeq(s, 4, n))
               [] b = 240 ->
                    n >= 4 /\ s[2] \in 144 .. 191 /\ IsCont(s[3]) /\ IsCont(s[4])
                           /\ ValidUtf8(SubSeq(s, 5, n))
               [] b \in 241 .. 243 ->
                    n >= 4 /\ IsCont(s[2]) /\ IsCont(s[3]) /\ IsCont(s[4])
                           /\ ValidUtf8(SubSeq(s, 5, n))
               [] b = 244 ->
                    n >= 4 /\ s[2] \in 128 .. 143 /\ IsCont(s[3]) /\ IsCont(s[4])
                           /\ ValidUtf8(SubSeq(s, 5, n))
               [] OTHER -> FALSE

\* what a decode step hands back
Ok(ls, at) == [status |-> "Ok", error |-> "", labels |-> ls, pos |-> at]

Err(e) == [status |-> "Err", error |-> e, labels |-> << >>, pos |-> 0]

\* an index or slice bound past the end of the packet: Rust panics
Panic == [status |-> "Panic", error |-> "index out of bounds", labels |-> << >>, pos |-> 0]

\* recursion that never returns: the thread's stack runs out
StackOverflow == [status |-> "StackOverflow", error |-> "stack overflow", labels |-> << >>, pos |-> 0]

\* parse_labels, the jump position: the low 6 bits of the first byte, then the
\* second byte
jump_position(b, second) == U16FromBe(BitAnd(b, 63), second)

\* after_jump with pos left where the nested call ended
after_jump_no_restore(acc, r, current_pos) == Ok(acc \o r.labels, r.pos)

\* after_jump with the labels read before the pointer lost
after_jump_drops_literals(acc, r, current_pos) == Ok(r.labels, current_pos)

\* parse_labels, after the nested call returned r: the labels are extended,
\* pos is set back to current_pos and the function returns
after_jump(acc, r, current_pos) == Ok(acc \o r.labels, current_pos)

RECURSIVE parse_labels_from(_, _, _, _)
\* DnsParser::parse_labels, from cursor `at` with `acc` already collected; the
\* while loop is the tail call.  `active` holds the offsets at which the calls
\* now on the stack were entered.  What a call does depends on the packet and
\* its entry offset alone, so a call entered at an offset of `active` would
\* make the same nested call again, without end: the recursion never returns
\* and the thread's stack runs out.
parse_labels_from(p, at, acc, active) ==
    IF at >= Len(p) THEN Ok(acc, at)                 \* packet.get(pos) is None
    ELSE LET b == p[at + 1] IN
         IF b = 0 THEN Ok(acc, at + 1)               \* null terminator
         ELSE IF BitAnd(b, 192) = 192                \* jump instruction
         THEN IF at + 1 >= Len(p) THEN Panic         \* self.packet[self.pos]
              ELSE LET jump_pos    == jump_position(b, p[at + 2])
                       current_pos == at + 2
                   IN  IF jump_pos \in active THEN StackOverflow
                       ELSE LET r == parse_labels_from(p, jump_pos, << >>,
                                                       active \cup {jump_pos})
                            IN  IF r.status # "Ok" THEN r
                                ELSE after_jump(acc, r, current_pos)
         ELSE LET length == b IN
              IF at + 1 + length > Len(p) THEN Panic \* packet[pos..pos + length]
              ELSE LET s == Slice(p, at + 1, at + 1 + length) IN
                   IF ~ValidUtf8(s) THEN Err("FromUtf8Error")
                   ELSE parse_labels_from(p, at + 1 + length, Append(acc, s), active)

\* DnsParser::parse_labels called with self.pos = at
parse_labels(p, at) == parse_labels_from(p, at, << >>, {at})

\* parse_question after its parse_labels call: the type is read and checked,
\* the class bytes are skipped unread
question_fields(p, at) ==
    IF at + 2 > Len(p) THEN Panic                    \* packet[pos..=pos + 1]
    ELSE LET record_type == RecordTypeFromU16(U16FromBe(p[at + 1], p[at + 2])) IN
         IF record_type = "Err" THEN Err("UnknownRecordType")
         ELSE [status |-> "Ok", error |-> "", pos |-> at + 4,
               record_type |-> record_type, record_class |-> "IN"]

\* parse_answer after its parse_labels call
answer_fields(p, at) ==
    IF at + 2 > Len(p) THEN Panic                    \* packet[pos..=pos + 1]
    ELSE LET record_type == RecordTypeFromU16(U16FromBe(p[at + 1], p[at + 2])) IN
         IF record_type = "Err" THEN Err("UnknownRecordType")
         ELSE IF at + 8 > Len(p) THEN Panic          \* packet[pos..pos + 4]
         ELSE LET ttl == U32FromBe(Slice(p, at + 4, at + 8)) IN
              IF at + 10 > Len(p) THEN Panic         \* packet[pos..pos + 2]
              ELSE LET rdlength == U16FromBe(p[at + 9], p[at + 10]) IN
                   IF at + 10 + rdlength > Len(p) THEN Panic  \* packet[pos..pos + rdlength]
                   ELSE [status |-> "Ok", error |-> "", pos |-> at + 10 + rdlength,
                         record_type |-> record_type, record_class |-> "IN",
                         ttl |-> ttl, rdata |-> Slice(p, at + 10, at + 10 + rdlength)]

\* parse left without a Message: an Err returned through `?`, or a panic
Abort(r) ==
    /\ pc' = "done"
    /\ result' = [status |-> r.status, error |-> r.error, message |-> NoMessage]

\* NextRecord with the two collects in the other order
NextRecordAnswersFirst ==
    IF Len(answers) < header.ancount THEN "answer"
    ELSE IF Len(questions) < header.qdcount THEN "question"
    ELSE "none"

\* which record parse decodes next: (0..qdcount) first, then (0..ancount)
NextRecord ==
    IF Len(questions) < header.qdcount THEN "question"
    ELSE IF Len(answers) < header.ancount THEN "answer"
    ELSE "none"

BetweenRecords == pc \in {"header", "question", "answer"}

\* DnsParser::parse_header
parse_header ==
    /\ pc = "start"
    /\ IF Len(packet) < 12
       THEN /\ Abort(Panic)                          \* packet[0..12]
            /\ UNCHANGED <<pos, header>>
       ELSE /\ header' = HeaderFromBytes(Slice(packet, 0, 12))
            /\ pos' = 12
            /\ pc' = "header"
            /\ UNCHANGED result
    /\ UNCHANGED <<packet, questions, answers, labels, starts, msg, headerVars>>

\* parse_question: let labels = self.parse_labels()?
parse_question_name ==
    /\ BetweenRecords
    /\ NextRecord = "question"
    /\ starts' = Append(starts, <<"question", pos>>)
    /\ LET r == parse_labels(packet, pos) IN
       IF r.status = "Ok"
       THEN /\ labels' = r.labels
            /\ pos' = r.pos
            /\ pc' = "qname"
            /\ UNCHANGED result
       ELSE /\ Abort(r)
            /\ UNCHANGED <<labels, pos>>
    /\ UNCHANGED <<packet, header, questions, answers, msg, headerVars>>

\* parse_question: the rest of the function
parse_question_fields ==
    /\ pc = "qname"
    /\ LET r == question_fields(packet, pos) IN
       IF r.status = "Ok"
       THEN /\ questions' = Append(questions, [name |-> labels,
                                               record_type |-> r.record_type,
                                               record_class |-> r.record_class])
            /\ pos' = r.pos
            /\ pc' = "question"
            /\ UNCHANGED result
       ELSE /\ Abort(r)
            /\ UNCHANGED <<questions, pos>>
    /\ UNCHANGED <<packet, header, answers, labels, starts, msg, headerVars>>

\* parse_answer: let labels = self.parse_labels()?
parse_answer_name ==
    /\ BetweenRecords
    /\ NextRecord = "answer"
    /\ starts' = Append(starts, <<"answer", pos>>)
    /\ LET r == parse_labels(packet, pos) IN
       IF r.status = "Ok"
       THEN /\ labels' = r.labels
            /\ pos' = r.pos
            /\ pc' = "aname"
            /\ UNCHANGED result
       ELSE /\ Abort(r)
            /\ UNCHANGED <<labels, pos>>
    /\ UNCHANGED <<packet, header, questions, answers, msg, headerVars>>

\* parse_answer: the rest of the function
parse_answer_fields ==
    /\ pc = "aname"
    /\ LET r == answer_fields(packet, pos) IN
       IF r.status = "Ok"
       THEN /\ answers' = Append(answers, [name |-> labels,
                                           record_type |-> r.record_type,
                                           record_class |-> r.record_class,
                                           ttl |-> r.ttl,
                                           rdata |-> r.rdata])
            /\ pos' = r.pos
            /\ pc' = "answer"
            /\ UNCHANGED result
       ELSE /\ Abort(r)
            /\ UNCHANGED <<answers, pos>>
    /\ UNCHANGED <<packet, header, questions, labels, starts, msg, headerVars>>

\* parse: Ok(Message { header, questions, answers, ..Default::default() })
parse_return ==
    /\ BetweenRecords
    /\ NextRecord = "none"
    /\ pc' = "done"
    /\ result' = [status |-> "Ok", error |-> "",
                  message |-> [header |-> header, questions |-> questions,
                               answers |-> answers]]
    /\ UNCHANGED <<packet, pos, header, questions, answers, labels, starts, msg, headerVars>>

\* DnsParser::parse, one step of it
parse ==
    \/ parse_header
    \/ parse_question_name
    \/ parse_question_fields
    \/ parse_answer_name
    \/ parse_answer_fields
    \/ parse_return

-----------------------------------------------------------------------------
(* The inputs: packets handed to DnsParser, Messages handed to the encoder. *)

MaxQuestions == 2

MaxAnswers == 1

\* the packet of test_parser_decompress (parser.rs): two questions, the second
\* name is `def` and a pointer to offset 16
TestPacket ==
    << 144, 155, 1, 0, 0, 2, 0, 0, 0, 0, 0, 0,
       3, 97, 98, 99, 17, 108, 111, 110, 103, 97, 115, 115, 100, 111, 109, 97, 105, 110, 110, 97,
       109, 101, 3, 99, 111, 109, 0, 0, 1, 0, 1,
       3, 100, 101, 102, 192, 16, 0, 1, 0, 1 >>

\* the same packet with the pointer aimed at offset 12, the start of the first name
TestPacketTo12 == [TestPacket EXCEPT ![49] = 12]

\* a reply with one question and one answer whose name is a pointer to the question's
AnswerPacket ==
    << 4, 210, 129, 128, 0, 1, 0, 1, 0, 0, 0, 0,
       3, 97, 98, 99, 0, 0, 1, 0, 1,
       192, 12, 0, 1, 0, 1, 0, 0, 0, 60, 0, 4, 8, 8, 8, 8 >>

\* every prefix of p, p included
Prefixes(p) == {SubSeq(p, 1, n) : n \in 0 .. Len(p)}

\* the two bytes of a compression pointer to offset `to`
Pointer(to) == << 192 + ((to \div 256) % 64), to % 256 >>

\* question records as they may stand at offset `at` of a packet
QuestionWires(at) ==
    { << 1, 97, 0 >> \o << 0, 1, 0, 1 >>,                   \* a        A     IN
      << 0 >> \o << 0, 15, 0, 2 >>,                         \* (root)   MX    class 2
      << 2, 195, 169, 0 >> \o << 0, 5, 0, 1 >>,             \* e-acute  CNAME IN
      << 1, 98 >> \o Pointer(12) \o << 0, 2, 0, 1 >>,       \* b + pointer to 12
      Pointer(at) \o << 0, 1, 0, 1 >>,                      \* pointer to itself
      << 1, 99 >> \o Pointer(at + 4) \o << 0, 1, 0, 1 >>,   \* c + pointer forward
      << 1, 97, 0 >> \o << 0, 3, 0, 1 >>,                   \* type 3
      << 1, 255, 0 >> \o << 0, 1, 0, 1 >> }                 \* a label that is not UTF-8

\* answer records as they may stand at offset `at` of a packet
AnswerWires(at) ==
    { Pointer(12) \o << 0, 1, 0, 1 >> \o << 0, 0, 0, 60 >> \o << 0, 4 >> \o << 8, 8, 8, 8 >>,
      << 1, 97, 0 >> \o << 0, 2, 0, 3 >> \o << 255, 255, 255, 255 >> \o << 0, 0 >>,
      << 0 >> \o << 0, 15, 0, 1 >> \o << 0, 0, 1, 0 >> \o << 0, 2 >> \o << 7 >> }

RECURSIVE Body(_, _, _)
\* k question records and then j answer records, laid out from offset `at`
Body(at, k, j) ==
    IF k > 0
    THEN UNION {{q \o rest : rest \in Body(at + Len(q), k - 1, j)} : q \in QuestionWires(at)}
    ELSE IF j > 0
    THEN UNION {{a \o rest : rest \in Body(at + Len(a), k, j - 1)} : a \in AnswerWires(at)}
    ELSE {<< >>}

\* a query header with the given counts
WireHeader(qd, an) == << 144, 155, 1, 0 >> \o U16ToBe(qd) \o U16ToBe(an) \o << 0, 0, 0, 0 >>

\* the header may declare one record more than the packet holds
Packets ==
    (UNION {{WireHeader(k + dq, j + da) \o b : b \in Body(12, k, j)} :
               <<k, j, dq, da>> \in (0 .. MaxQuestions) \X (0 .. MaxAnswers) \X {0, 1} \X {0, 1}})
    \cup Prefixes(TestPacket) \cup Prefixes(TestPacketTo12) \cup Prefixes(AnswerPacket)

\* label texts, as UTF-8 bytes: a, e-acute, and 63 times x
Label63 == [i \in 1 .. 63 |-> 120]

InQuestions ==
    { [name |-> << <<97>> >>, record_type |-> "A", record_class |-> "IN"],
      [name |-> << >>, record_type |-> "NS", record_class |-> "IN"],
      [name |-> << <<195, 169>>, <<99, 111, 109>> >>, record_type |-> "Cname", record_class |-> "IN"],
      [name |-> << Label63, <<97>> >>, record_type |-> "MX", record_class |-> "IN"] }

InAnswers ==
    { [name |-> << <<97>> >>, record_type |-> "A", record_class |-> "IN",
       ttl |-> <<0, 60>>, rdata |-> <<8, 8, 8, 8>>],
      [name |-> << Label63, <<97>> >>, record_type |-> "MX", record_class |-> "IN",
       ttl |-> <<65535, 65535>>, rdata |-> << >>],
      [name |-> << >>, record_type |-> "Cname", record_class |-> "IN",
       ttl |-> <<0, 0>>, rdata |-> [i \in 1 .. 300 |-> i % 256]] }

RECURSIVE SeqsOf(_, _)
\* the sequences of exactly n elements of S
SeqsOf(S, n) ==
    IF n = 0 THEN {<< >>} ELSE {<<x>> \o rest : x \in S, rest \in SeqsOf(S, n - 1)}

\* <<id, flags, nscount, arcount>> of the headers of the Messages tried
InHeaders ==
    { <<1234, <<1, 0>>, 0, 0>>, <<65535, <<129, 128>>, 0, 1>>, <<0, <<255, 255>>, 65535, 258>> }

\* Messages whose header counts are their numbers of questions and answers
Messages ==
    UNION {{[header |-> [id |-> h[1], flags |-> h[2], qdcount |-> Len(qs), ancount |-> Len(as),
                         nscount |-> h[3], arcount |-> h[4]],
             questions |-> qs, answers |-> as] :
               qs \in SeqsOf(InQuestions, k), as \in SeqsOf(InAnswers, j)} :
           <<k, j, h>> \in (0 .. MaxQuestions) \X (0 .. MaxAnswers) \X InHeaders}

-----------------------------------------------------------------------------
(* DnsParser { packet, pos: 0 } on a packet off the wire, then parse()      *)

ParserIdle ==
    /\ pos = 0
    /\ header = NoHeader
    /\ questions = << >>
    /\ answers = << >>
    /\ labels = << >>
    /\ starts = << >>
    /\ result = [status |-> "running", error |-> "", message |-> NoMessage]

HeaderIdle ==
    /\ hdr = DefaultHeader
    /\ op = <<"none">>
    /\ response = << >>

Init ==
    /\ packet \in Packets
    /\ pc = "start"
    /\ msg = NoMessage
    /\ ParserIdle
    /\ HeaderIdle

Next == parse

Spec == Init /\ [][Next]_vars

-----------------------------------------------------------------------------
(* A Message is encoded, and the bytes are parsed back.                     *)

InitRoundTrip ==
    /\ msg \in Messages
    /\ packet = << >>
    /\ pc = "built"
    /\ ParserIdle
    /\ HeaderIdle

\* let bytes: Vec<u8> = message.try_into()?; DnsParser { packet: bytes, pos: 0 }
encode ==
    /\ pc = "built"
    /\ packet' = MessageToBytes(msg)
    /\ pc' = "start"
    /\ UNCHANGED <<pos, header, questions, answers, labels, starts, result, msg, headerVars>>

NextRoundTrip == encode \/ parse

SpecRoundTrip == InitRoundTrip /\ [][NextRoundTrip]_vars

-----------------------------------------------------------------------------
(* main.rs: its own Header (every field a [u8; 2]) and the responder loop   *)

\* main.rs Header::default()
MainDefaultHeader ==
    [id |-> <<0, 0>>, flags |-> <<0, 0>>, qdcount |-> <<0, 0>>, ancount |-> <<0, 0>>,
     nscount |-> <<0, 0>>, arcount |-> <<0, 0>>]

\* main.rs Header::new_reply: the id argument is not used
main_new_reply(id) ==
    LET h == MainDefaultHeader
    IN  [h EXCEPT !.flags[1] = BitOr(h.flags[1], 128)]

\* main.rs Header::set_id
main_set_id(h, id) == [h EXCEPT !.id = id]

\* main.rs impl TryFrom<[u8; 12]> for Header
MainHeaderFromBytes(bytes) ==
    [id      |-> SubSeq(bytes, 1, 2),
     flags   |-> SubSeq(bytes, 3, 4),
     qdcount |-> SubSeq(bytes, 5, 6),
     ancount |-> SubSeq(bytes, 7, 8),
     nscount |-> SubSeq(bytes, 9, 10),
     arcount |-> SubSeq(bytes, 11, 12)]

\* main.rs impl TryInto<[u8; 12]> for Header
MainHeaderToBytes(h) == h.id \o h.flags \o h.qdcount \o h.ancount \o h.nscount \o h.arcount

\* main.rs impl TryInto<Vec<u8>> for Message: the header bytes alone
MainMessageToBytes(m) == MainHeaderToBytes(m.header)

\* main.rs: the reply header the loop builds for a request header
MainResponseHeader(request_header) ==
    main_set_id(main_new_reply(request_header.id), request_header.id)

-----------------------------------------------------------------------------
(* Header operations on a header decoded from a request, and the main loop  *)

\* the second flag byte of the request headers tried
Flags1 == {0, 5, 240, 255}

\* request headers: every first flag byte, some second flag bytes
HeaderWires ==
    {<< 4, 210, f0, f1, 0, 1, 0, 2, 0, 3, 0, 4 >> : f0 \in Byte, f1 \in Flags1}

\* request ids the replies are built for
Ids == {0, 1234, 65535}

OpCodes ==
    {<<"Query">>, <<"IQuery">>, <<"Status">>}
        \cup {<<"Reserved", n>> : n \in {10, 15, 255}}

InitHeader ==
    /\ \E bytes \in HeaderWires : hdr = HeaderFromBytes(bytes)
    /\ op = <<"decode">>
    /\ response = << >>
    /\ packet = << >>
    /\ pc = "idle"
    /\ msg = NoMessage
    /\ ParserIdle

\* let h = Header::new_reply(id)
call_new_reply ==
    \E id \in Ids :
        /\ hdr' = new_reply(id)
        /\ op' = <<"new_reply", id>>
        /\ UNCHANGED <<response, parserVars, msg>>

\* h.set_opcode(opcode)
call_set_opcode ==
    \E opcode \in OpCodes :
        /\ hdr' = set_opcode(hdr, opcode)
        /\ op' = <<"set_opcode", opcode>>
        /\ UNCHANGED <<response, parserVars, msg>>

\* h.set_rd(rd)
call_set_rd ==
    \E rd \in BOOLEAN :
        /\ hdr' = set_rd(hdr, rd)
        /\ op' = <<"set_rd", rd>>
        /\ UNCHANGED <<response, parserVars, msg>>

\* h.set_rcode(rcode)
call_set_rcode ==
    \E rcode \in RCodes :
        /\ hdr' = set_rcode(hdr, rcode)
        /\ op' = <<"set_rcode", rcode>>
        /\ UNCHANGED <<response, parserVars, msg>>

NextHeader ==
    \/ call_new_reply
    \/ call_set_opcode
    \/ call_set_rd
    \/ call_set_rcode

SpecHeader == InitHeader /\ [][NextHeader]_vars

-----------------------------------------------------------------------------
(* Replies: Header::new_reply of types.rs, and the loop of main.rs          *)

\* the datagrams the loop receives: a header with any of the ids, then zeros
Datagrams ==
    {U16ToBe(id) \o << f0, f1, 0, 1, 0, 0, 0, 0, 0, 0 >> :
        id \in Ids, f0 \in {0, 1, 120, 255}, f1 \in {0, 255}}

InitReply ==
    /\ hdr = DefaultHeader
    /\ op = <<"none">>
    /\ response = << >>
    /\ packet = << >>
    /\ pc = "idle"
    /\ msg = NoMessage
    /\ ParserIdle

\* main.rs, one turn of the loop: a datagram arrives (held in `packet`), its
\* first 12 bytes are decoded, the reply header is built and the reply sent
main_loop ==
    \E buf \in Datagrams :
        LET request_header  == MainHeaderFromBytes(SubSeq(buf, 1, 12))
            response_header == MainResponseHeader(request_header)
            message         == [header |-> response_header]
        IN  /\ packet' = buf
            /\ response' = MainMessageToBytes(message)
            /\ op' = <<"main_loop", request_header.id, response_header>>
            /\ UNCHANGED <<hdr, pos, pc, header, questions, answers, labels, starts,
                           result, msg>>

NextReply == call_new_reply \/ main_loop

SpecReply == InitReply /\ [][NextReply]_vars

-----------------------------------------------------------------------------
(* The vocabulary of the properties.                                        *)

RECURSIVE LiteralWalk(_, _, _)
\* The name written at offset `at` of p, read as the wire format defines it
\* and without following a pointer: its literal labels, and how it ends
\* ("zero": the terminator; "pointer": a pointer whose first byte is at `at`,
\* to offset `target`; "cut": the packet ends inside the name).
LiteralWalk(p, at, lits) ==
    IF at >= Len(p) THEN [kind |-> "cut", lits |-> lits, at |-> at, target |-> 0]
    ELSE LET b == p[at + 1] IN
         IF b = 0 THEN [kind |-> "zero", lits |-> lits, at |-> at, target |-> 0]
         ELSE IF b >= 192
         THEN IF at + 2 > Len(p) THEN [kind |-> "cut", lits |-> lits, at |-> at, target |-> 0]
              ELSE [kind |-> "pointer", lits |-> lits, at |-> at,
                    target |-> (b - 192) * 256 + p[at + 2]]
         ELSE IF at + 1 + b > Len(p)
         THEN [kind |-> "cut", lits |-> lits, at |-> at, target |-> 0]
         ELSE LiteralWalk(p, at + 1 + b, Append(lits, SubSeq(p, at + 2, at + 1 + b)))

\* the name of the record whose decode began last
LastName == LiteralWalk(packet, starts[Len(starts)][2], << >>)

\* parse_labels has just returned Ok inside parse_question or parse_answer
NameDecoded == pc \in {"qname", "aname"}

\* the u16 at 0-based offset `at` of the packet
CodeAt(at) == packet[at + 1] * 256 + packet[at + 2]

\* the text of a label in ASCII codes
Abc == << 97, 98, 99 >>

Def == << 100, 101, 102 >>

Longassdomainname == << 108, 111, 110, 103, 97, 115, 115, 100, 111, 109, 97, 105, 110, 110, 97, 109, 101 >>

Com == << 99, 111, 109 >>

-----------------------------------------------------------------------------
(* C1 *)

\* C1 (round trip): when parse has ended on the bytes the encoder made of a
\* Message whose counts are its numbers of questions and answers, it has
\* returned Ok with a Message equal to the encoded one: the header's id, flags
\* and four counts, every question's name and type, every answer's name, type,
\* TTL and RDATA.
C1_RoundTrip ==
    pc = "done" =>
        /\ result.status = "Ok"
        /\ result.message.header = msg.header
        /\ result.message.questions = msg.questions
        /\ result.message.answers = msg.answers

\* a message with two questions and an answer, a 63-byte label and 300 bytes
\* of RDATA has made the round trip
C1_Witness ==
    /\ pc = "done"
    /\ msg # NoMessage
    /\ packet = MessageToBytes(msg)
    /\ Len(msg.questions) = 2
    /\ Len(msg.answers) = 1
    /\ msg.questions[2].name = << Label63, <<97>> >>
    /\ Len(msg.answers[1].rdata) = 300
    /\ msg.header.id = 65535

-----------------------------------------------------------------------------
(* C2 *)

-----------------------------------------------------------------------------
(* C3 *)

\* C3 (pointer safety): once the decode of a name whose pointer aims at the
\* pointer's own offset or past it has been run, parse has ended with the
\* error CompressionPointerLoop.
C3_PointerSafety ==
    (starts # << >> /\ LastName.kind = "pointer" /\ LastName.target >= LastName.at) =>
        /\ pc = "done"
        /\ result.status = "Err"
        /\ result.error = "CompressionPointerLoop"

-----------------------------------------------------------------------------
(* C4 *)

\* C4 (truncation safety): parse never ends in an out-of-bounds index; on a
\* buffer of fewer than 12 bytes it returns the error TruncatedInput; and it
\* returns no Message after moving pos past the end of the buffer.
C4_TruncationSafety ==
    pc = "done" =>
        /\ result.status # "Panic"
        /\ Len(packet) < 12 => (result.status = "Err" /\ result.error = "TruncatedInput")
        /\ result.status = "Ok" => pos <= Len(packet)

-----------------------------------------------------------------------------
(* C5 *)

\* the flag bits outside mask0 (of flags[0]) and mask1 (of flags[1]), the id
\* and the four counts are the same in h and g
SameOutside(h, g, mask0, mask1) ==
    /\ BitAnd(h.flags[1], 255 - mask0) = BitAnd(g.flags[1], 255 - mask0)
    /\ BitAnd(h.flags[2], 255 - mask1) = BitAnd(g.flags[2], 255 - mask1)
    /\ h.id = g.id
    /\ h.qdcount = g.qdcount
    /\ h.ancount = g.ancount
    /\ h.nscount = g.nscount
    /\ h.arcount = g.arcount

\* C5 (flags isolation): a set_opcode call changes nothing outside bits 3-6
\* of flags[0], a set_rd call nothing outside bit 0 of flags[0], a set_rcode
\* call nothing outside the low 4 bits of flags[1]; none changes the id or a
\* count.
C5_FlagsIsolation ==
    [][ /\ op'[1] = "set_opcode" => SameOutside(hdr, hdr', 120, 0)
        /\ op'[1] = "set_rd" => SameOutside(hdr, hdr', 1, 0)
        /\ op'[1] = "set_rcode" => SameOutside(hdr, hdr', 0, 15) ]_vars

\* set_opcode(Reserved(255)) has run on a header with QR, AA and TC clear, RD
\* set, the high bits of flags[1] set, and an id and counts that are not zero
C5_Witness ==
    /\ op = <<"set_opcode", <<"Reserved", 255>>>>
    /\ BitAnd(hdr.flags[1], 135) = 1
    /\ hdr.flags[2] = 240
    /\ hdr.id = 1234
    /\ hdr.arcount = 4

-----------------------------------------------------------------------------
(* C10 *)

\* C10 (setters overwrite): after set_opcode(o) get_opcode returns o (for an
\* o that get_opcode can return: Query, IQuery, Status, Reserved(3..15)), after
\* set_rd(b) get_rd returns b, after set_rcode(rc) the low 4 bits of flags[1]
\* are the code of rc.
C10_SettersOverwrite ==
    /\ (op[1] = "set_opcode" /\ OpCodeFromU8(OpCodeToU8(op[2])) = op[2]) =>
           get_opcode(hdr) = op[2]
    /\ op[1] = "set_rd" => get_rd(hdr) = op[2]
    /\ op[1] = "set_rcode" => BitAnd(hdr.flags[2], 15) = RCodeToU8(op[2])

-----------------------------------------------------------------------------
(* C6 *)

RecordTypeCodes == {1, 2, 5, 15}

\* C6 (record codes): the step that follows the name of a question or an
\* answer whose type and class fields are in the packet fails with
\* UnknownRecordType when the type code is not 1, 2, 5 or 15, and fails with
\* UnknownRecordClass when the type code is one of them and the class code
\* is not 1; either way parse ends without a Message.
C6_RecordCodes ==
    [][ (NameDecoded /\ pc' # pc /\ pos + 4 <= Len(packet)) =>
            /\ CodeAt(pos) \notin RecordTypeCodes =>
                   /\ pc' = "done"
                   /\ result'.status = "Err"
                   /\ result'.error = "UnknownRecordType"
                   /\ result'.message = NoMessage
            /\ (CodeAt(pos) \in RecordTypeCodes /\ CodeAt(pos + 2) # 1) =>
                   /\ pc' = "done"
                   /\ result'.status = "Err"
                   /\ result'.error = "UnknownRecordClass"
                   /\ result'.message = NoMessage ]_vars

-----------------------------------------------------------------------------
(* C7 *)

\* C7 (reply construction): the header new_reply(X) returns has id X, flags
\* 0x80 0x00 and four counts of 0, and encodes to bytes that start with X; the
\* reply the main loop builds for a datagram whose id bytes are X has the same
\* flags and counts, id X, and is sent as 12 bytes that start with X.
C7_ReplyConstruction ==
    /\ op[1] = "new_reply" =>
           /\ hdr.id = op[2]
           /\ hdr.flags = <<128, 0>>
           /\ hdr.qdcount = 0 /\ hdr.ancount = 0 /\ hdr.nscount = 0 /\ hdr.arcount = 0
           /\ SubSeq(HeaderToBytes(hdr), 1, 2) = << op[2] \div 256, op[2] % 256 >>
           /\ Len(HeaderToBytes(hdr)) = 12
    /\ op[1] = "main_loop" =>
           /\ op[2] = SubSeq(packet, 1, 2)
           /\ op[3].id = op[2]
           /\ op[3].flags = <<128, 0>>
           /\ op[3].qdcount = <<0, 0>> /\ op[3].ancount = <<0, 0>>
           /\ op[3].nscount = <<0, 0>> /\ op[3].arcount = <<0, 0>>
           /\ response = SubSeq(packet, 1, 2) \o <<128, 0, 0, 0, 0, 0, 0, 0, 0, 0>>

\* the main loop has replied to a datagram with id 1234 and every flag bit
\* set, after new_reply(65535) built a header
C7_Witness ==
    /\ op[1] = "main_loop"
    /\ SubSeq(packet, 1, 4) = <<4, 210, 255, 255>>
    /\ response # << >>
    /\ hdr.id = 65535
    /\ hdr.flags[1] = 128

-----------------------------------------------------------------------------
(* C8 *)

\* the offsets at which the record decodes began grow strictly
StartsAscend == \A i \in 1 .. Len(starts) - 1 : starts[i][2] < starts[i + 1][2]

\* C8 (count-driven, all or nothing): a parse that returned Ok returned the
\* header with exactly qdcount questions and ancount answers, decoded at
\* growing offsets of the buffer, every question before every answer; a
\* parse that ended otherwise returned no Message, every record before the
\* failing one had been decoded, and no answer decode was tried after a
\* question decode failed.
C8_CountDriven ==
    pc = "done" =>
        IF result.status = "Ok"
        THEN /\ result.message.header = header
             /\ Len(result.message.questions) = header.qdcount
             /\ Len(result.message.answers) = header.ancount
             /\ Len(starts) = header.qdcount + header.ancount
             /\ \A i \in 1 .. Len(starts) :
                    starts[i][1] = IF i <= header.qdcount THEN "question" ELSE "answer"
             /\ StartsAscend
             /\ \A i \in 1 .. Len(starts) :
                    LET name == IF i <= header.qdcount
                                THEN result.message.questions[i].name
                                ELSE result.message.answers[i - header.qdcount].name
                    IN  name = parse_labels(packet, starts[i][2]).labels
        ELSE /\ result.message = NoMessage
             /\ header # NoHeader =>
                    /\ Len(questions) + Len(answers) = Len(starts) - 1
                    /\ Len(questions) < header.qdcount =>
                           \A i \in 1 .. Len(starts) : starts[i][1] = "question"

\* a parse of two questions and an answer has returned Ok
C8_Witness ==
    /\ pc = "done"
    /\ result.status = "Ok"
    /\ header.qdcount = 2
    /\ header.ancount = 1
    /\ Len(result.message.questions) = 2
    /\ Len(result.message.answers) = 1

-----------------------------------------------------------------------------
(* C9 *)

\* C9 as stated: with the second name `def` and a pointer to offset 12, parse
\* succeeds and the second question's name is def.longassdomainname.com.
C9_PointerTo12 ==
    (pc = "done" /\ packet = TestPacketTo12) =>
        /\ result.status = "Ok"
        /\ result.message.questions[2].name = << Def, Longassdomainname, Com >>

\* C9 amended: with the pointer to offset 12 parse succeeds and the second
\* question's name is def.abc.longassdomainname.com; with the pointer to
\* offset 16, as in test_parser_decompress, it is def.longassdomainname.com.
\* The first question's name is abc.longassdomainname.com in both.
C9_ConcreteCompression ==
    pc = "done" =>
        /\ packet = TestPacketTo12 =>
               /\ result.status = "Ok"
               /\ result.message.questions[1].name = << Abc, Longassdomainname, Com >>
               /\ result.message.questions[2].name = << Def, Abc, Longassdomainname, Com >>
        /\ packet = TestPacket =>
               /\ result.status = "Ok"
               /\ result.message.questions[1].name = << Abc, Longassdomainname, Com >>
               /\ result.message.questions[2].name = << Def, Longassdomainname, Com >>

\* the packet with the pointer to offset 12 has been parsed to the end
C9_Witness ==
    /\ pc = "done"
    /\ packet = TestPacketTo12
    /\ result.status = "Ok"
    /\ Len(result.message.questions) = 2
    /\ pos = Len(packet)

=============================================================================
